---- MODULE Spec2Model ----
(***************************************************************************)
(* Appointment booking and lifecycle handlers of                           *)
(* src/controllers/appointmentController.js over an abstract document      *)
(* store.  A request handler runs to completion as one step (requests are  *)
(* handled one at a time); `last` holds the request being answered and its *)
(* response until the response has been sent.  Times are epoch             *)
(* milliseconds in the server's zone; a doctor's rating is kept in tenths  *)
(* (45 stands for 4.5); score 0 stands for "no rating.score".  `calls` holds *)
(* the bookAppointment calls that interleave at their store calls.         *)
(***************************************************************************)
EXTENDS Integers, Sequences, FiniteSets

VARIABLES appts, doctors, last, calls

vars == <<appts, doctors, last, calls>>

\* ---- bounds and input domains -------------------------------------------
\* most appointments the store holds
MaxAppts == 2
\* most appointments of a store drawn by InitRating
MaxRated == 4
\* bookAppointment calls in flight at once
MaxCalls == 2

Doctors    == {"d1", "d2"}
Patients   == {"p1", "p2"}
NoId       == "none"
Slots      == {"10:00-10:30"}
Scores     == {4, 5}
Statuses   == {"scheduled", "ongoing", "completed", "cancelled", "no-show"}

\* `new Date()`: the current time, noon of day 0
Now == 43200000

Noon1 == 86400000 + 43200000
End1  == 86400000 + 86399999

\* appointmentDate values sent by clients: one hour ago, exactly now,
\* tomorrow noon, tomorrow 23:59:59.999
BookDates == {Now - 3600000, Now, Noon1, End1}

Idle == [op |-> "idle", code |-> 0, err |-> "none", id |-> 0,
         req |-> [none |-> TRUE], body |-> [none |-> TRUE]]

Response(op, code, err, id, req) ==
    [op |-> op, code |-> code, err |-> err, id |-> id, req |-> req,
     body |-> [none |-> TRUE]]

\* ---- dates ---------------------------------------------------------------
\* Date.prototype.setHours(h, m, s, ms): same calendar day, given time of day
SetHours(t, h, m, s, ms) ==
    (t - (t % 86400000)) + h * 3600000 + m * 60000 + s * 1000 + ms

\* appointmentDateTime <= new Date()
DateNotInFuture_lt(date) == date < Now

DateNotInFuture(date) == date <= Now

\* ---- store queries of bookAppointment -----------------------------------
\* Appointment.findOne({doctorId, appointmentDate: {$gte, $lt}, timeSlot,
\*                      status: {$in: ['scheduled', 'ongoing']}})
DoctorSlotTaken(A, doctorId, date, slot) ==
    \E i \in 1..Len(A) :
        /\ A[i].doctorId = doctorId
        /\ A[i].appointmentDate >= SetHours(date, 0, 0, 0, 0)
        /\ A[i].appointmentDate < SetHours(date, 23, 59, 59, 999)
        /\ A[i].timeSlot = slot
        /\ A[i].status \in {"scheduled", "ongoing"}

\* Appointment.findOne({patientId, appointmentDate: {$gte, $lt}, timeSlot,
\*                      status: {$in: ['scheduled', 'ongoing', 'confirmed']}})
PatientSlotTaken(A, patientId, date, slot) ==
    \E i \in 1..Len(A) :
        /\ A[i].patientId = patientId
        /\ A[i].appointmentDate >= SetHours(date, 0, 0, 0, 0)
        /\ A[i].appointmentDate < SetHours(date, 23, 59, 59, 999)
        /\ A[i].timeSlot = slot
        /\ A[i].status \in {"scheduled", "ongoing", "confirmed"}

\* new Appointment({doctorId, patientId, appointmentDate, timeSlot, ...,
\*                  status: 'scheduled'})
NewAppointment(doctorId, patientId, date, slot) ==
    [doctorId |-> doctorId, patientId |-> patientId, appointmentDate |-> date,
     timeSlot |-> slot, status |-> "scheduled", score |-> 0,
     whatsappSent |-> FALSE]

\* try { await sendAppointmentConfirmation(...); appointment.whatsappSent = true;
\*       await appointment.save() } catch (whatsappError) { log }
Notify_always(appt, notif) == [appt EXCEPT !.whatsappSent = TRUE]

Notify(appt, notif) ==
    IF notif = "sent" THEN [appt EXCEPT !.whatsappSent = TRUE] ELSE appt

\* Doctor.findByIdAndUpdate(doctorId, {$inc: {totalPatients: 1}})
IncTotalPatients(D, doctorId) ==
    IF doctorId \in DOMAIN D
    THEN [D EXCEPT ![doctorId].totalPatients = @ + 1]
    ELSE D

\* ---- bookAppointment -----------------------------------------------------
\* as bookAppointment, but with the patient-side check made after the save
BookAppointment_saveFirst(valid, doctorId, patientId, date, slot, notifier) ==
    LET req == [valid |-> valid, doctorId |-> doctorId, patientId |-> patientId,
                date |-> date, slot |-> slot, notif |-> "none"]
        Reject(code, err) ==
            /\ last' = Response("book", code, err, 0, req)
            /\ UNCHANGED <<appts, doctors>>
    IN  /\ last = Idle
        /\ IF ~valid THEN Reject(400, "Validation failed")
           ELSE IF doctorId \notin Doctors THEN Reject(404, "Doctor not found")
           ELSE IF patientId \notin Patients THEN Reject(404, "Patient not found")
           ELSE IF DateNotInFuture(date) THEN Reject(400, "Invalid date")
           ELSE IF DoctorSlotTaken(appts, doctorId, date, slot)
                THEN Reject(400, "Time slot not available")
           ELSE /\ Len(appts) < MaxAppts
                /\ IF PatientSlotTaken(appts, patientId, date, slot)
                   THEN /\ appts' = Append(appts,
                               NewAppointment(doctorId, patientId, date, slot))
                        /\ last' = Response("book", 400,
                                            "Conflicting appointment", 0, req)
                        /\ UNCHANGED doctors
                   ELSE \E notif \in notifier :
                         /\ appts' = Append(appts,
                                Notify(NewAppointment(doctorId, patientId, date, slot),
                                       notif))
                         /\ doctors' = IncTotalPatients(doctors, doctorId)
                         /\ last' = Response("book", 201, "none", Len(appts) + 1,
                                             [req EXCEPT !.notif = notif])

\* notifier: the outcomes sendAppointmentConfirmation may have
BookAppointment(valid, doctorId, patientId, date, slot, notifier) ==
    LET req == [valid |-> valid, doctorId |-> doctorId, patientId |-> patientId,
                date |-> date, slot |-> slot, notif |-> "none"]
        Reject(code, err) ==
            /\ last' = Response("book", code, err, 0, req)
            /\ UNCHANGED <<appts, doctors>>
    IN  /\ last = Idle
        /\ IF ~valid THEN Reject(400, "Validation failed")
           ELSE IF doctorId \notin Doctors THEN Reject(404, "Doctor not found")
           ELSE IF patientId \notin Patients THEN Reject(404, "Patient not found")
           ELSE IF DateNotInFuture(date) THEN Reject(400, "Invalid date")
           ELSE IF DoctorSlotTaken(appts, doctorId, date, slot)
                THEN Reject(400, "Time slot not available")
           ELSE IF PatientSlotTaken(appts, patientId, date, slot)
                THEN Reject(400, "Conflicting appointment")
           ELSE /\ Len(appts) < MaxAppts
                /\ \E notif \in notifier :
                     /\ appts' = Append(appts,
                            Notify(NewAppointment(doctorId, patientId, date, slot),
                                   notif))
                     /\ doctors' = IncTotalPatients(doctors, doctorId)
                     /\ last' = Response("book", 201, "none", Len(appts) + 1,
                                         [req EXCEPT !.notif = notif])

\* ---- ownership checks ----------------------------------------------------
\* (patientId && appointment.patientId._id.toString() !== patientId) &&
\* (doctorId && appointment.doctorId._id.toString() !== doctorId)
GetDenied(appt, reqP, reqD) ==
    /\ reqP # NoId /\ appt.patientId # reqP
    /\ reqD # NoId /\ appt.doctorId # reqD

\* (patientId && appointment.patientId.toString() !== patientId) &&
\* (doctorId && appointment.doctorId.toString() !== doctorId)
UpdateDenied(appt, reqP, reqD) ==
    /\ reqP # NoId /\ appt.patientId # reqP
    /\ reqD # NoId /\ appt.doctorId # reqD

CancelDenied(appt, reqP, reqD) ==
    /\ reqP # NoId /\ appt.patientId # reqP
    /\ reqD # NoId /\ appt.doctorId # reqD

\* ---- cancelAppointment ---------------------------------------------------
\* appointment.status === 'completed' || appointment.status === 'cancelled'
CannotCancel_onlyCancelled(status) == status = "cancelled"

CannotCancel(status) == status = "completed" \/ status = "cancelled"

CancelAppointment(id, reqP, reqD) ==
    LET req == [patientId |-> reqP, doctorId |-> reqD]
        Reject(code, err) ==
            /\ last' = Response("cancel", code, err, id, req)
            /\ UNCHANGED <<appts, doctors>>
    IN  /\ last = Idle
        /\ IF id \notin 1..Len(appts) THEN Reject(404, "Appointment not found")
           ELSE IF CancelDenied(appts[id], reqP, reqD)
                THEN Reject(403, "Access denied")
           ELSE IF CannotCancel(appts[id].status)
                THEN Reject(400, "Cannot cancel appointment")
           ELSE /\ appts' = [appts EXCEPT ![id].status = "cancelled"]
                /\ last' = Response("cancel", 200, "none", id, req)
                /\ UNCHANGED doctors

\* ---- getAppointment ------------------------------------------------------
GetAppointment(id, reqP, reqD) ==
    LET req == [patientId |-> reqP, doctorId |-> reqD]
    IN  /\ last = Idle
        /\ last' = IF id \notin 1..Len(appts)
                   THEN Response("get", 404, "Appointment not found", id, req)
                   ELSE IF GetDenied(appts[id], reqP, reqD)
                   THEN Response("get", 403, "Access denied", id, req)
                   ELSE [Response("get", 200, "none", id, req)
                            EXCEPT !.body = appts[id]]
        /\ UNCHANGED <<appts, doctors>>

\* ---- updateAppointment ---------------------------------------------------
\* the body fields left in updateFields once patientId and doctorId are taken
\* out; "keep" (0 for the score) stands for a field the body does not carry
NoFields == [status |-> "keep", timeSlot |-> "keep", score |-> 0]

\* Object.assign(appointment, updateFields)
AssignFields(appt, f) ==
    [appt EXCEPT !.status   = IF f.status = "keep" THEN @ ELSE f.status,
                 !.timeSlot = IF f.timeSlot = "keep" THEN @ ELSE f.timeSlot,
                 !.score    = IF f.score = 0 THEN @ ELSE f.score]

UpdateAppointment(id, reqP, reqD, fields) ==
    LET req == [patientId |-> reqP, doctorId |-> reqD, fields |-> fields]
        Reject(code, err) ==
            /\ last' = Response("update", code, err, id, req)
            /\ UNCHANGED <<appts, doctors>>
    IN  /\ last = Idle
        /\ IF id \notin 1..Len(appts) THEN Reject(404, "Appointment not found")
           ELSE IF UpdateDenied(appts[id], reqP, reqD)
                THEN Reject(403, "Access denied")
           ELSE /\ appts' = [appts EXCEPT ![id] = AssignFields(@, fields)]
                /\ last' = Response("update", 200, "none", id, req)
                /\ UNCHANGED doctors

\* ---- rateAppointment -----------------------------------------------------
\* appointment.patientId.toString() !== patientId
NotOwnAppointment_never(appt, reqP) == FALSE

NotOwnAppointment(appt, reqP) == appt.patientId # reqP

\* appointment.status !== 'completed'
NotCompleted_orOngoing(status) == status \notin {"completed", "ongoing"}

NotCompleted(status) == status # "completed"

\* Appointment.find({doctorId, status: 'completed', 'rating.score': {$exists: true}})
DoctorAppointments(A, doctorId) ==
    {i \in 1..Len(A) : /\ A[i].doctorId = doctorId
                       /\ A[i].status = "completed"
                       /\ A[i].score # 0}

\* doctorAppointments.reduce((sum, apt) => sum + apt.rating.score, 0)
RECURSIVE SumScores(_, _)
SumScores(A, I) ==
    IF I = {} THEN 0
    ELSE LET i == CHOOSE j \in I : TRUE
         IN  A[i].score + SumScores(A, I \ {i})

\* Math.round((sum / totalRatings) * 10) / 10, in tenths; Math.round takes
\* a half to the next integer up
RoundRating_halfDown(sum, totalRatings) ==
    (20 * sum + totalRatings - 1) \div (2 * totalRatings)

RoundRating(sum, totalRatings) ==
    (20 * sum + totalRatings) \div (2 * totalRatings)

RateAppointment(id, reqP, score) ==
    LET req == [patientId |-> reqP, score |-> score]
        Reject(code, err) ==
            /\ last' = Response("rate", code, err, id, req)
            /\ UNCHANGED <<appts, doctors>>
    IN  /\ last = Idle
        /\ IF id \notin 1..Len(appts) THEN Reject(404, "Appointment not found")
           ELSE IF NotOwnAppointment(appts[id], reqP)
                THEN Reject(403, "Access denied")
           ELSE IF NotCompleted(appts[id].status)
                THEN Reject(400, "Cannot rate appointment")
           ELSE LET A == [appts EXCEPT ![id].score = score]
                    doctorAppointments == DoctorAppointments(A, A[id].doctorId)
                    totalRatings == Cardinality(doctorAppointments)
                IN  /\ appts' = A
                    /\ doctors' = [doctors EXCEPT ![A[id].doctorId].rating =
                           RoundRating(SumScores(A, doctorAppointments),
                                       totalRatings)]
                    /\ last' = Response("rate", 200, "none", id, req)

\* ---- getAppointmentStats -------------------------------------------------
\* const query = doctorId ? { doctorId } : { patientId }
StatsQuery(reqP, reqD) ==
    IF reqD # NoId THEN [field |-> "doctorId", val |-> reqD]
    ELSE [field |-> "patientId", val |-> reqP]

\* { $match: query }
Matches(appt, query) ==
    IF query.field = "doctorId" THEN appt.doctorId = query.val
    ELSE appt.patientId = query.val

\* Appointment.aggregate([{$match}, {$group: {_id: '$status', count: {$sum: 1}}}]):
\* one group per status that occurs
Aggregate(A, query) ==
    LET M == {i \in 1..Len(A) : Matches(A[i], query)}
    IN  [s \in {A[i].status : i \in M} |->
            Cardinality({i \in M : A[i].status = s})]

\* stats.forEach(stat => { formattedStats[stat._id] = stat.count;
\*                         formattedStats.total += stat.count })
RECURSIVE FormatStats_countGroups(_, _, _)
FormatStats_countGroups(stats, todo, formatted) ==
    IF todo = {} THEN formatted
    ELSE LET id == CHOOSE s \in todo : TRUE
         IN  FormatStats_countGroups(stats, todo \ {id},
                 [[formatted EXCEPT ![id] = stats[id]]
                     EXCEPT !["total"] = @ + 1])

RECURSIVE FormatStats(_, _, _)
FormatStats(stats, todo, formatted) ==
    IF todo = {} THEN formatted
    ELSE LET id == CHOOSE s \in todo : TRUE
         IN  FormatStats(stats, todo \ {id},
                 [[formatted EXCEPT ![id] = stats[id]]
                     EXCEPT !["total"] = @ + stats[id]])

\* formattedStats = {total: 0, scheduled: 0, completed: 0, cancelled: 0,
\*                   ongoing: 0, 'no-show': 0}
ZeroStats == [k \in {"total", "scheduled", "completed", "cancelled",
                     "ongoing", "no-show"} |-> 0]

GetAppointmentStats(reqP, reqD) ==
    LET req == [patientId |-> reqP, doctorId |-> reqD]
        stats == Aggregate(appts, StatsQuery(reqP, reqD))
    IN  /\ last = Idle
        /\ last' = [Response("stats", 200, "none", 0, req)
                       EXCEPT !.body = FormatStats(stats, DOMAIN stats, ZeroStats)]
        /\ UNCHANGED <<appts, doctors>>

\* ---- response sent -------------------------------------------------------
\* res.status(...).json(...): the handler returns, the next request is taken
Deliver ==
    /\ last # Idle
    /\ last' = Idle
    /\ UNCHANGED <<appts, doctors>>

\* ---- bookAppointment calls in flight -------------------------------------
Procs == 1..MaxCalls

\* a call that has not been received yet
NewCall == [pc |-> "new",
            req |-> [valid |-> FALSE, doctorId |-> NoId, patientId |-> NoId,
                     date |-> 0, slot |-> "none"],
            total |-> 0, seen |-> 0, clear |-> FALSE, id |-> 0, code |-> 0,
            err |-> "none"]

\* ---- booking and cancellation from an empty store ------------------------
Init ==
    /\ appts = << >>
    /\ doctors = [d \in Doctors |-> [rating |-> 0, totalPatients |-> 0]]
    /\ last = Idle
    /\ calls = [p \in Procs |-> NewCall]

Next ==
    \/ \E d \in Doctors \cup {"d0"}, p \in Patients \cup {"p0"},
          date \in BookDates, s \in Slots :
          BookAppointment(TRUE, d, p, date, s, {"sent", "failed"})
            /\ UNCHANGED calls
    \/ \E d \in Doctors, date \in {Now, Noon1}, s \in Slots :
          BookAppointment(FALSE, d, "p1", date, s, {"sent", "failed"})
            /\ UNCHANGED calls
    \/ \E id \in 0..Len(appts), p \in Patients :
          CancelAppointment(id, p, NoId) /\ UNCHANGED calls
    \/ Deliver /\ UNCHANGED calls

Spec == Init /\ [][Next]_vars

\* ---- the appointment lifecycle from an empty store -----------------------
\* who asks: no identifier, the patient, another patient, or another
\* patient together with another doctor
Requesters == {<<NoId, NoId>>, <<"p1", NoId>>, <<"p2", NoId>>, <<"p2", "d2">>}

UpdateRequesters == {<<NoId, NoId>>, <<"p2", "d1">>, <<"p2", "d2">>}

UpdateFields ==
    {[NoFields EXCEPT !.status = s] : s \in Statuses}
        \cup {[NoFields EXCEPT !.score = 5]}

StatsRequesters == {<<"p1", NoId>>, <<NoId, "d1">>, <<NoId, "d2">>, <<"p2", "d1">>}

NextLifecycle ==
    \/ BookAppointment(TRUE, "d1", "p1", Noon1, "10:00-10:30", {"sent"})
         /\ UNCHANGED calls
    \/ \E id \in 0..Len(appts), r \in Requesters :
          GetAppointment(id, r[1], r[2]) /\ UNCHANGED calls
    \/ \E id \in 0..Len(appts), r \in UpdateRequesters, f \in UpdateFields :
          UpdateAppointment(id, r[1], r[2], f) /\ UNCHANGED calls
    \/ \E id \in 0..Len(appts), r \in Requesters :
          CancelAppointment(id, r[1], r[2]) /\ UNCHANGED calls
    \/ \E id \in 0..Len(appts), p \in Patients, k \in Scores :
          RateAppointment(id, p, k) /\ UNCHANGED calls
    \/ \E r \in StatsRequesters :
          GetAppointmentStats(r[1], r[2]) /\ UNCHANGED calls
    \/ Deliver /\ UNCHANGED calls

SpecLifecycle == Init /\ [][NextLifecycle]_vars

\* ---- rating a store of finished appointments -----------------------------
\* appointments as booking, updateAppointment and rateAppointment leave them:
\* completed (unrated or rated), cancelled after a rating, another doctor's
RatedAppts ==
    {[NewAppointment("d1", "p1", Noon1, "10:00-10:30")
        EXCEPT !.status = "completed", !.score = k, !.whatsappSent = TRUE]
        : k \in {0} \cup Scores}
    \cup {[NewAppointment("d1", "p1", Noon1, "10:00-10:30")
        EXCEPT !.status = "cancelled", !.score = 5, !.whatsappSent = TRUE],
          [NewAppointment("d2", "p1", Noon1, "10:00-10:30")
        EXCEPT !.status = "completed", !.score = 5, !.whatsappSent = TRUE]}

InitRating ==
    /\ appts \in UNION {[1..n -> RatedAppts] : n \in 0..MaxRated}
    /\ doctors = [d \in Doctors |->
          [rating |-> 0,
           totalPatients |-> Cardinality({i \in 1..Len(appts) :
                                            appts[i].doctorId = d})]]
    /\ last = Idle
    /\ calls = [p \in Procs |-> NewCall]

NextRating ==
    \/ \E id \in 0..Len(appts), p \in Patients, k \in Scores :
          RateAppointment(id, p, k) /\ UNCHANGED calls
    \/ Deliver /\ UNCHANGED calls

SpecRating == InitRating /\ [][NextRating]_vars

\* ---- bookAppointment, one store call at a time --------------------------
\* every `await` of bookAppointment is a step of its own; between two steps
\* of a call the other calls and handlers run
ConcurrentRequests ==
    {[valid |-> TRUE, doctorId |-> d, patientId |-> "p1", date |-> Noon1,
      slot |-> "10:00-10:30"] : d \in Doctors}
    \cup {[valid |-> FALSE, doctorId |-> "d0", patientId |-> "p0",
           date |-> Now, slot |-> "10:00-10:30"],
          [valid |-> TRUE, doctorId |-> "d0", patientId |-> "p1",
           date |-> Noon1, slot |-> "10:00-10:30"],
          [valid |-> TRUE, doctorId |-> "d1", patientId |-> "p0",
           date |-> Noon1, slot |-> "10:00-10:30"],
          [valid |-> TRUE, doctorId |-> "d1", patientId |-> "p1",
           date |-> Now, slot |-> "10:00-10:30"]}

\* return res.status(code).json({error: err})
Answer(call, code, err) == [call EXCEPT !.pc = "done", !.code = code, !.err = err]

\* validationResult(req), then the call of Doctor.findById
Receive(p, req) ==
    /\ calls[p].pc = "new"
    /\ calls' = [calls EXCEPT ![p] =
          IF ~req.valid
          THEN Answer([@ EXCEPT !.req = req], 400, "Validation failed")
          ELSE [@ EXCEPT !.req = req, !.pc = "findDoctor"]]
    /\ UNCHANGED <<appts, doctors, last>>

\* const doctor = await Doctor.findById(doctorId)
FindDoctor(p) ==
    /\ calls[p].pc = "findDoctor"
    /\ calls' = [calls EXCEPT ![p] =
          IF calls[p].req.doctorId \notin Doctors
          THEN Answer(@, 404, "Doctor not found")
          ELSE [@ EXCEPT !.pc = "findPatient",
                         !.total = doctors[calls[p].req.doctorId].totalPatients]]
    /\ UNCHANGED <<appts, doctors, last>>

\* const patient = await Patient.findById(patientId), then the date check
FindPatient(p) ==
    /\ calls[p].pc = "findPatient"
    /\ calls' = [calls EXCEPT ![p] =
          IF calls[p].req.patientId \notin Patients
          THEN Answer(@, 404, "Patient not found")
          ELSE IF DateNotInFuture(calls[p].req.date)
          THEN Answer(@, 400, "Invalid date")
          ELSE [@ EXCEPT !.pc = "findDoctorSlot"]]
    /\ UNCHANGED <<appts, doctors, last>>

\* const existingAppointment = await Appointment.findOne({doctorId, ...});
\* seen: how many appointments the store held when the query ran
FindDoctorSlot(p) ==
    /\ calls[p].pc = "findDoctorSlot"
    /\ calls' = [calls EXCEPT ![p] =
          IF DoctorSlotTaken(appts, calls[p].req.doctorId, calls[p].req.date,
                             calls[p].req.slot)
          THEN Answer(@, 400, "Time slot not available")
          ELSE [@ EXCEPT !.pc = "findPatientSlot", !.seen = Len(appts)]]
    /\ UNCHANGED <<appts, doctors, last>>

\* const existingPatientAppointment = await Appointment.findOne({patientId, ...});
\* clear: neither query returned an appointment
FindPatientSlot(p) ==
    /\ calls[p].pc = "findPatientSlot"
    /\ calls' = [calls EXCEPT ![p] =
          IF PatientSlotTaken(appts, calls[p].req.patientId, calls[p].req.date,
                              calls[p].req.slot)
          THEN Answer(@, 400, "Conflicting appointment")
          ELSE [@ EXCEPT !.pc = "save", !.clear = TRUE]]
    /\ UNCHANGED <<appts, doctors, last>>

\* await appointment.save(): the insert, with no check of its own
Save_unique(p) ==
    /\ calls[p].pc = "save"
    /\ IF DoctorSlotTaken(appts, calls[p].req.doctorId, calls[p].req.date,
                          calls[p].req.slot)
       THEN /\ calls' = [calls EXCEPT ![p] =
                   Answer(@, 400, "Time slot not available")]
            /\ UNCHANGED appts
       ELSE /\ appts' = Append(appts,
                   NewAppointment(calls[p].req.doctorId, calls[p].req.patientId,
                                  calls[p].req.date, calls[p].req.slot))
            /\ calls' = [calls EXCEPT ![p].pc = "notify",
                                      ![p].id = Len(appts) + 1]
    /\ UNCHANGED <<doctors, last>>

Save(p) ==
    /\ calls[p].pc = "save"
    /\ appts' = Append(appts,
           NewAppointment(calls[p].req.doctorId, calls[p].req.patientId,
                          calls[p].req.date, calls[p].req.slot))
    /\ calls' = [calls EXCEPT ![p].pc = "notify", ![p].id = Len(appts) + 1]
    /\ UNCHANGED <<doctors, last>>

\* await sendAppointmentConfirmation(...), sent or thrown
SendConfirmation(p) ==
    /\ calls[p].pc = "notify"
    /\ \E notif \in {"sent", "failed"} :
          calls' = [calls EXCEPT ![p].pc =
                       IF notif = "sent" THEN "saveSent" ELSE "increment"]
    /\ UNCHANGED <<appts, doctors, last>>

\* appointment.whatsappSent = true; await appointment.save(): writes the
\* changed field only
SaveSent(p) ==
    /\ calls[p].pc = "saveSent"
    /\ appts' = [appts EXCEPT ![calls[p].id] = Notify(@, "sent")]
    /\ calls' = [calls EXCEPT ![p].pc = "increment"]
    /\ UNCHANGED <<doctors, last>>

\* await Doctor.findByIdAndUpdate(doctorId, {$inc: {totalPatients: 1}});
\* res.status(201).json(...)
IncrementPatients_stale(p) ==
    /\ calls[p].pc = "increment"
    /\ doctors' = [doctors EXCEPT ![calls[p].req.doctorId].totalPatients =
                      calls[p].total + 1]
    /\ calls' = [calls EXCEPT ![p] = Answer(@, 201, "none")]
    /\ UNCHANGED <<appts, last>>

IncrementPatients(p) ==
    /\ calls[p].pc = "increment"
    /\ doctors' = IncTotalPatients(doctors, calls[p].req.doctorId)
    /\ calls' = [calls EXCEPT ![p] = Answer(@, 201, "none")]
    /\ UNCHANGED <<appts, last>>

NextConcurrent ==
    \/ \E p \in Procs, req \in ConcurrentRequests : Receive(p, req)
    \/ \E p \in Procs : FindDoctor(p)
    \/ \E p \in Procs : FindPatient(p)
    \/ \E p \in Procs : FindDoctorSlot(p)
    \/ \E p \in Procs : FindPatientSlot(p)
    \/ \E p \in Procs : Save(p)
    \/ \E p \in Procs : SendConfirmation(p)
    \/ \E p \in Procs : SaveSent(p)
    \/ \E p \in Procs : IncrementPatients(p)
    \/ \E id \in 1..Len(appts) :
          CancelAppointment(id, NoId, NoId) /\ UNCHANGED calls
    \/ Deliver /\ UNCHANGED calls

SpecConcurrent == Init /\ [][NextConcurrent]_vars

\* ==== properties ==========================================================
SameDay(t1, t2) == t1 \div 86400000 = t2 \div 86400000

Active(appt) == appt.status \in {"scheduled", "ongoing"}

\* C1: at most one scheduled or ongoing appointment per (doctor, calendar
\* day, timeSlot) in every reachable state.
C1_OneActivePerSlot ==
    \A i, j \in 1..Len(appts) :
        (/\ i # j
         /\ Active(appts[i]) /\ Active(appts[j])
         /\ appts[i].doctorId = appts[j].doctorId
         /\ SameDay(appts[i].appointmentDate, appts[j].appointmentDate))
        => appts[i].timeSlot # appts[j].timeSlot

\* C2 as stated: every bookAppointment with appointmentDate <= now is answered
\* 400 'Invalid date', whatever the other fields.
C2_AlwaysInvalidDate ==
    (last.op = "book" /\ last.req.date <= Now)
        => (last.code = 400 /\ last.err = "Invalid date")

\* C2 as amended: a bookAppointment with appointmentDate <= now is rejected
\* and changes nothing in the store; it is answered 400 'Invalid date' when
\* validation passes and the doctor and the patient exist.
C2_PastDateRejected ==
    [][(last'.op = "book" /\ last'.req.date <= Now)
        => /\ appts' = appts
           /\ doctors' = doctors
           /\ last'.code \in {400, 404}
           /\ (/\ last'.req.valid
               /\ last'.req.doctorId \in Doctors
               /\ last'.req.patientId \in Patients)
              => (last'.code = 400 /\ last'.err = "Invalid date")]_vars

C2_Witness ==
    /\ last.op = "book"
    /\ last.req.date = Now
    /\ last.err = "Invalid date"
    /\ Len(appts) = 1

OwnershipPasses(appt, req) ==
    ~(/\ req.patientId # NoId /\ req.patientId # appt.patientId
      /\ req.doctorId # NoId /\ req.doctorId # appt.doctorId)

\* C3 as stated: cancelAppointment on an existing completed or cancelled
\* appointment is answered 400 'Cannot cancel appointment' and keeps the
\* status; on a scheduled or ongoing one it succeeds and the status becomes
\* cancelled.
C3_CancelByStatus ==
    [][(last'.op = "cancel" /\ last'.id \in 1..Len(appts))
        => LET id == last'.id
           IN  /\ appts[id].status \in {"completed", "cancelled"}
                    => /\ last'.code = 400
                       /\ last'.err = "Cannot cancel appointment"
                       /\ appts'[id].status = appts[id].status
               /\ appts[id].status \in {"scheduled", "ongoing"}
                    => /\ last'.code = 200
                       /\ appts'[id].status = "cancelled"]_vars

\* C3 as amended: the same, for a request that passes the ownership check
\* (it does not supply both a patientId and a doctorId that both differ from
\* the appointment's).
C3_CancelByStatusWhenAllowed ==
    [][(/\ last'.op = "cancel" /\ last'.id \in 1..Len(appts)
        /\ OwnershipPasses(appts[last'.id], last'.req))
        => LET id == last'.id
           IN  /\ appts[id].status \in {"completed", "cancelled"}
                    => /\ last'.code = 400
                       /\ last'.err = "Cannot cancel appointment"
                       /\ appts'[id].status = appts[id].status
               /\ appts[id].status \in {"scheduled", "ongoing"}
                    => /\ last'.code = 200
                       /\ appts'[id].status = "cancelled"]_vars

C3_Witness ==
    /\ last.op = "cancel"
    /\ last.err = "Cannot cancel appointment"
    /\ last.id \in 1..Len(appts)
    /\ appts[last.id].status = "completed"

\* C4: rateAppointment on an existing appointment sets its rating to the
\* request's score exactly when the appointment is completed and the
\* requester's patientId is the appointment's; otherwise the appointments and
\* the doctors' ratings stay as they were.
C4_RateAcceptedIff ==
    [][(last'.op = "rate" /\ last'.id \in 1..Len(appts))
        => LET id == last'.id
               ok == /\ appts[id].status = "completed"
                     /\ last'.req.patientId = appts[id].patientId
           IN  /\ ok => /\ last'.code = 200
                        /\ appts'[id].score = last'.req.score
               /\ ~ok => /\ last'.code # 200
                         /\ appts' = appts
                         /\ doctors' = doctors]_vars

C4_Witness ==
    /\ last.op = "rate"
    /\ last.code = 200
    /\ appts[last.id].score = last.req.score
    /\ last.req.score = 4

\* the doctor's completed appointments that carry a rating
RatedOf(d) ==
    {i \in 1..Len(appts) : /\ appts[i].doctorId = d
                           /\ appts[i].status = "completed"
                           /\ appts[i].score # 0}

ScoreSum(I) ==
    LET cnt(k) == Cardinality({i \in I : appts[i].score = k})
    IN  cnt(1) + 2 * cnt(2) + 3 * cnt(3) + 4 * cnt(4) + 5 * cnt(5)

\* r tenths is sum/n rounded to one decimal, a half going up:
\* r - 1/2 <= 10 * sum / n < r + 1/2
IsRoundedMean(r, sum, n) ==
    /\ n > 0
    /\ (2 * r - 1) * n <= 20 * sum
    /\ 20 * sum < (2 * r + 1) * n

\* C5: after a successful rateAppointment the doctor's rating is the mean of
\* the scores of that doctor's completed, rated appointments, rounded to one
\* decimal with a half rounded away from zero.
C5_RatingIsRoundedMean ==
    (last.op = "rate" /\ last.code = 200)
        => LET d == appts[last.id].doctorId
           IN  IsRoundedMean(doctors[d].rating, ScoreSum(RatedOf(d)),
                             Cardinality(RatedOf(d)))

C5_Witness ==
    /\ last.op = "rate"
    /\ last.code = 200
    /\ Cardinality(RatedOf("d1")) = 2
    /\ ScoreSum(RatedOf("d1")) = 9
    /\ doctors["d1"].rating = 45
    /\ appts[last.id].doctorId = "d1"

\* C6: for a query by doctorId or by patientId, the per-status counts of
\* getAppointmentStats add up to the total, the total is the number of
\* matching appointments, and each count is the number of matching
\* appointments of that status (0 when there is none).
C6_StatsCounts ==
    (/\ last.op = "stats"
     /\ (last.req.doctorId = NoId) # (last.req.patientId = NoId))
        => LET M == {i \in 1..Len(appts) :
                        IF last.req.doctorId # NoId
                        THEN appts[i].doctorId = last.req.doctorId
                        ELSE appts[i].patientId = last.req.patientId}
               b == last.body
           IN  /\ b["total"] = Cardinality(M)
               /\ b["scheduled"] + b["completed"] + b["cancelled"]
                    + b["ongoing"] + b["no-show"] = b["total"]
               /\ \A s \in Statuses :
                    b[s] = Cardinality({i \in M : appts[i].status = s})

C6_Witness ==
    /\ last.op = "stats"
    /\ last.req.doctorId = "d1"
    /\ last.req.patientId = NoId
    /\ last.body["total"] = 2
    /\ last.body["completed"] = 2
    /\ last.body["scheduled"] = 0

\* C7: getAppointment, updateAppointment and cancelAppointment answer 403
\* unless the supplied patientId is the appointment's patientId or the
\* supplied doctorId is the appointment's doctorId.
C7_OnlyPartiesAuthorized ==
    (/\ last.op \in {"get", "update", "cancel"}
     /\ last.id \in 1..Len(appts)
     /\ last.req.patientId # appts[last.id].patientId
     /\ last.req.doctorId # appts[last.id].doctorId)
        => last.code = 403

\* C8: a bookAppointment that passes validation, names an existing doctor and
\* patient and a future date is answered 400 'Time slot not available' while
\* another patient holds a scheduled or ongoing appointment of that doctor on
\* that calendar day and slot; with no such appointment for the doctor or
\* for the patient it is answered 201 and the new appointment is scheduled.
C8_SlotHeldThenReleased ==
    [][(/\ last'.op = "book"
        /\ last'.req.valid
        /\ last'.req.doctorId \in Doctors
        /\ last'.req.patientId \in Patients
        /\ last'.req.date > Now)
        => LET r == last'.req
               SameSlot(i) == /\ Active(appts[i])
                              /\ SameDay(appts[i].appointmentDate, r.date)
                              /\ appts[i].timeSlot = r.slot
               held == \E i \in 1..Len(appts) :
                          /\ SameSlot(i)
                          /\ appts[i].doctorId = r.doctorId
                          /\ appts[i].patientId # r.patientId
               free == \A i \in 1..Len(appts) :
                          SameSlot(i) => /\ appts[i].doctorId # r.doctorId
                                         /\ appts[i].patientId # r.patientId
           IN  /\ held => /\ last'.code = 400
                          /\ last'.err = "Time slot not available"
               /\ free => /\ last'.code = 201
                          /\ appts'[last'.id].status = "scheduled"]_vars

\* C9: when the notification fails the booking still succeeds: 201, the
\* appointment is stored as scheduled without whatsappSent, and the doctor's
\* totalPatients is one higher; a booked appointment has whatsappSent only if
\* the notification was sent.
C9_NotificationFailureKeepsBooking ==
    [][(last'.op = "book")
        => LET r == last'.req
               id == last'.id
           IN  /\ r.notif = "failed"
                    => /\ last'.code = 201
                       /\ Len(appts') = Len(appts) + 1
                       /\ appts'[id].status = "scheduled"
                       /\ ~appts'[id].whatsappSent
                       /\ doctors'[r.doctorId].totalPatients
                            = doctors[r.doctorId].totalPatients + 1
               /\ (last'.code = 201 /\ appts'[id].whatsappSent)
                    => r.notif = "sent"]_vars

C9_Witness ==
    /\ last.op = "book"
    /\ last.req.notif = "failed"
    /\ last.code = 201
    /\ ~appts[last.id].whatsappSent
    /\ doctors[last.req.doctorId].totalPatients = 2

\* C10: once a rating has been accepted for a doctor (the rating has left its
\* initial 0), the doctor's rating is the mean, rounded to one decimal, of the
\* scores of that doctor's completed appointments.
C10_RatingAlwaysMean ==
    \A d \in Doctors :
        doctors[d].rating # 0
            => IsRoundedMean(doctors[d].rating, ScoreSum(RatedOf(d)),
                             Cardinality(RatedOf(d)))

\* C13: once an appointment's status is completed or cancelled, no request
\* changes it.
C13_TerminalAbsorbing ==
    [][\A i \in 1..Len(appts) :
          appts[i].status \in {"completed", "cancelled"}
              => appts'[i].status = appts[i].status]_vars

\* C14: a bookAppointment that is rejected, for whichever reason, leaves the
\* appointments and the doctors as they were and calls no notifier.
C14_RejectedBookingChangesNothing ==
    [][(last'.op = "book" /\ last'.code # 201)
        => /\ appts' = appts
           /\ doctors' = doctors
           /\ last'.req.notif = "none"]_vars

C14_Witness ==
    /\ last.op = "book"
    /\ last.code = 400
    /\ last.err = "Conflicting appointment"
    /\ Len(appts) = 1
    /\ doctors[appts[1].doctorId].totalPatients = 1

\* bookAppointment calls that have saved their appointment and have not yet
\* incremented the doctor's counter
Pending(d) ==
    {p \in Procs : /\ calls[p].pc \in {"notify", "saveSent", "increment"}
                   /\ calls[p].req.doctorId = d}

\* C11: whatever the interleaving, a doctor's totalPatients is its initial 0
\* plus the number of appointments created for that doctor, calls still on
\* their way to the increment set aside; cancellations do not change it.
C11_TotalPatientsCountsBookings ==
    \A d \in Doctors :
        doctors[d].totalPatients + Cardinality(Pending(d))
            = Cardinality({i \in 1..Len(appts) : appts[i].doctorId = d})

C11_Witness ==
    /\ \A p \in Procs : calls[p].pc = "done" /\ calls[p].code = 201
    /\ doctors["d1"].totalPatients = 2
    /\ \E i \in 1..Len(appts) : appts[i].status = "cancelled"
    /\ \E i \in 1..Len(appts) : ~appts[i].whatsappSent

\* C12: two bookAppointment calls for the same doctor, day and slot that both
\* found no conflicting appointment are both answered 201, each with an
\* appointment of its own for that doctor, day and slot.
C12_BothChecksPassedBothBooked ==
    \A p, q \in Procs :
        (/\ p # q
         /\ calls[p].pc = "done" /\ calls[q].pc = "done"
         /\ calls[p].clear /\ calls[q].clear
         /\ calls[p].req.doctorId = calls[q].req.doctorId
         /\ SameDay(calls[p].req.date, calls[q].req.date)
         /\ calls[p].req.slot = calls[q].req.slot)
        => /\ calls[p].code = 201 /\ calls[q].code = 201
           /\ calls[p].id # calls[q].id
           /\ \A c \in {p, q} :
                /\ calls[c].id \in 1..Len(appts)
                /\ appts[calls[c].id].doctorId = calls[c].req.doctorId
                /\ appts[calls[c].id].appointmentDate = calls[c].req.date
                /\ appts[calls[c].id].timeSlot = calls[c].req.slot

\* both doctor-side checks ran on the empty store, before either save, and
\* the store ends with two scheduled appointments for one doctor, day and slot
C12_Witness ==
    /\ calls[1].pc = "done" /\ calls[2].pc = "done"
    /\ calls[1].code = 201 /\ calls[2].code = 201
    /\ calls[1].seen = 0 /\ calls[2].seen = 0
    /\ calls[1].req.doctorId = calls[2].req.doctorId
    /\ Len(appts) = 2
    /\ appts[1].status = "scheduled" /\ appts[2].status = "scheduled"
    /\ appts[1].doctorId = appts[2].doctorId
    /\ appts[1].timeSlot = appts[2].timeSlot
    /\ SameDay(appts[1].appointmentDate, appts[2].appointmentDate)
====
